---- MODULE Spec2Model ----
(***************************************************************************)
(* Receipt generator (src/app.py): the ephemeral-artifact lifecycle        *)
(* (generate_receipt, delete_file_after_delay, download_pdf,               *)
(* download_receipt), the logo upload handler and the receipt calculator.  *)
(*                                                                         *)
(* Strings are sequences of one-character strings.  Time is in seconds;    *)
(* the clock is observed every TickSeconds seconds.                        *)
(***************************************************************************)
EXTENDS Integers, Sequences, FiniteSets

VARIABLES now,     \* wall clock, seconds
          disk,    \* generated artifacts: <<kind, id>> -> [exists, by]
          gen,     \* generate_receipt requests: slot -> [pc, id, status, err]
          timer,   \* deletion threads: <<slot, kind>> -> [st, file, wake]
          dl,      \* download requests: slot -> [pc, route, arg, status, sent]
          up,      \* upload_logo requests: slot -> [pc, has, name, stored, status]
          uploads, \* upload directory: stored filename -> uploading slot
          calc     \* receipt calculator: [pc, req, data]

vars == <<now, disk, gen, timer, dl, up, uploads, calc>>

(***************************************************************************)
(* Bounds of the model.                                                    *)
(***************************************************************************)
TickSeconds == 20      \* the clock advances this many seconds per Tick
MaxTime == 40          \* no request starts after this time
MaxItems == 2          \* line items per receipt request
MaxClock == 60         \* the upload clock stops here

(***************************************************************************)
(* Program constants and path helpers.                                     *)
(***************************************************************************)
Delay == 60

StaticDir == <<"s","t","a","t","i","c">>
UPLOAD_FOLDER == StaticDir \o <<"/","u","p","l","o","a","d","s">>
QR_FOLDER == StaticDir \o <<"/","q","r">>

\* os.path.join(dir, name): an absolute name replaces the directory.
Join(dir, name) ==
    IF name # <<>> /\ name[1] = "/" THEN name ELSE dir \o <<"/">> \o name

\* Python's `sub in s` for strings.
Contains(s, sub) ==
    \E i \in 0 .. (Len(s) - Len(sub)) :
        \A j \in 1 .. Len(sub) : s[i + j] = sub[j]

PdfName(id) == <<"r","e","c","e","i","p","t","_">> \o id \o <<".","p","d","f">>
QrName(id) == <<"q","r","_">> \o id \o <<".","p","n","g">>
PdfPath(id) == Join(StaticDir, PdfName(id))
QrPath(id) == Join(QR_FOLDER, QrName(id))

ReceiptIds == { <<"1">>, <<"2">> }
Kinds == {"pdf", "qr"}
ArtifactPath(kind, id) == IF kind = "pdf" THEN PdfPath(id) ELSE QrPath(id)

\* A generated file is held as <<kind, id>>; PathOf gives its path.
Files == Kinds \X ReceiptIds
PathOf(f) == ArtifactPath(f[1], f[2])

\* Request slots: two generate_receipt requests (so that a receipt id can be
\* reused), one download, two uploads.
GenSlots == {1, 2}
DlSlots == {1}
UpSlots == {1, 2}

\* The application's own source file, which static/../app.py names.
AppSource == Join(StaticDir, <<".",".","/","a","p","p",".","p","y">>)

\* os.path.exists(path)
Exists(path) ==
    \/ path = AppSource
    \/ \E f \in Files : PathOf(f) = path /\ disk[f].exists

(***************************************************************************)
(* generate_receipt (lines 135-238).  The handler is cut where it touches  *)
(* the disk: the QR image is saved (178), the PDF is written (213/216),    *)
(* then both deletions are scheduled and the response is returned          *)
(* (226-234).  Any exception leaves through the handlers at 217-223 and    *)
(* 236-238 with status 500.                                                *)
(***************************************************************************)
IdleGen == [pc |-> "idle", id |-> <<>>, status |-> 0, err |-> "", wrote |-> {}]
NoTimer == [st |-> "none", file |-> <<>>, wake |-> 0]

WriteFile(f, r) == [disk EXCEPT ![f] = [exists |-> TRUE, by |-> r]]

\* delete_file_after_delay(file_path, delay_seconds): start a thread that
\* sleeps delay_seconds and then deletes (lines 86-99).
delete_file_after_delay(file_path, delay_seconds) ==
    [st |-> "sleep", file |-> file_path, wake |-> now + delay_seconds]

\* Lines 139-158 raise (no JSON body, a non-numeric quantity, ...): 500, and
\* nothing was written.
GenFailEarly(r, id) ==
    /\ gen[r].pc = "idle"
    /\ now <= MaxTime
    /\ \A q \in GenSlots : q < r => gen[q].pc # "idle"
    /\ gen' = [gen EXCEPT ![r] = [pc |-> "done", id |-> id, status |-> 500,
                                  err |-> "generic", wrote |-> {}]]
    /\ UNCHANGED <<now, disk, timer, dl, up, uploads, calc>>

\* Lines 139-178: totals, QR payload, qr_img.save(qr_path).
GenSaveQR(r, id) ==
    /\ gen[r].pc = "idle"
    /\ now <= MaxTime
    /\ \A q \in GenSlots : q < r => gen[q].pc # "idle"
    /\ disk' = WriteFile(<<"qr", id>>, r)
    /\ gen' = [gen EXCEPT ![r] = [pc |-> "qr", id |-> id, status |-> 0,
                                  err |-> "", wrote |-> {"qr"}]]
    /\ UNCHANGED <<now, timer, dl, up, uploads, calc>>

\* Lines 181-216, pdfkit.from_string succeeds: the PDF is on disk.
GenWritePDF(r) ==
    /\ gen[r].pc = "qr"
    /\ disk' = WriteFile(<<"pdf", gen[r].id>>, r)
    /\ gen' = [gen EXCEPT ![r].pc = "pdf", ![r].wrote = @ \cup {"pdf"}]
    /\ UNCHANGED <<now, timer, dl, up, uploads, calc>>

\* Lines 211-223 and 236-238: rendering fails.  pdfkit raises OSError when
\* wkhtmltopdf is missing (nothing written) and when it exits non-zero
\* (the output file may already be written); render_template or any other
\* failure is the generic error.  Both return 500 without scheduling.
GenRenderError(r, kind, written) ==
    /\ gen[r].pc = "qr"
    /\ kind \in {"renderer_unavailable", "generic"}
    /\ disk' = IF written THEN WriteFile(<<"pdf", gen[r].id>>, r) ELSE disk
    /\ gen' = [gen EXCEPT ![r].pc = "done", ![r].status = 500, ![r].err = kind,
                          ![r].wrote = IF written THEN @ \cup {"pdf"} ELSE @]
    /\ UNCHANGED <<now, timer, dl, up, uploads, calc>>

\* Lines 225-234: schedule both deletions, return success.
GenScheduleAndRespond(r) ==
    /\ gen[r].pc = "pdf"
    /\ timer' = [timer EXCEPT
                   ![<<r, "pdf">>] = delete_file_after_delay(<<"pdf", gen[r].id>>, Delay),
                   ![<<r, "qr">>] = delete_file_after_delay(<<"qr", gen[r].id>>, Delay)]
    /\ gen' = [gen EXCEPT ![r].pc = "done", ![r].status = 200]
    /\ UNCHANGED <<now, disk, dl, up, uploads, calc>>

(***************************************************************************)
(* delete_file (lines 88-95), the body of a deletion thread.               *)
(***************************************************************************)
\* Lines 90-91: the sleep is over; os.path.exists(file_path).
TimerCheck(t) ==
    /\ timer[t].st = "sleep"
    /\ now >= timer[t].wake
    /\ timer' = [timer EXCEPT ![t].st =
                    IF Exists(PathOf(timer[t].file)) THEN "found" ELSE "noop"]
    /\ UNCHANGED <<now, disk, gen, dl, up, uploads, calc>>

\* A failing remove takes the sleeping deletion threads down with it.
RemoveOutcome_Crashing(t) ==
    IF disk[timer[t].file].exists
    THEN [st |-> "deleted",
          disk |-> [disk EXCEPT ![timer[t].file] = [exists |-> FALSE, by |-> 0]],
          timer |-> [timer EXCEPT ![t].st = "deleted"]]
    ELSE [st |-> "error",
          disk |-> disk,
          timer |-> [u \in DOMAIN timer |->
                       IF u = t \/ timer[u].st = "sleep"
                       THEN [timer[u] EXCEPT !.st = "error"] ELSE timer[u]]]

\* What os.remove leaves of the thread and the disk (lines 92-95): the file
\* is removed, or the remove raises and the handler logs the error.
RemoveOutcome(t) ==
    IF disk[timer[t].file].exists
    THEN [st |-> "deleted",
          disk |-> [disk EXCEPT ![timer[t].file] = [exists |-> FALSE, by |-> 0]],
          timer |-> [timer EXCEPT ![t].st = "deleted"]]
    ELSE [st |-> "error",
          disk |-> disk,
          timer |-> [timer EXCEPT ![t].st = "error"]]

TimerRemove(t) ==
    /\ timer[t].st = "found"
    /\ disk' = RemoveOutcome(t).disk
    /\ timer' = RemoveOutcome(t).timer
    /\ UNCHANGED <<now, gen, dl, up, uploads, calc>>

(***************************************************************************)
(* download_pdf (240-256) and download_receipt (258-274).                  *)
(***************************************************************************)
IdleDl == [pc |-> "idle", route |-> "", arg |-> <<>>, status |-> 0, sent |-> FALSE]

\* The guard without its '/' test.
InvalidIdentifier_DotDotOnly(arg) ==
    arg = <<>> \/ Contains(arg, <<".", ".">>)

\* Lines 244 and 262: the path-traversal guard.
InvalidIdentifier(arg) ==
    arg = <<>> \/ Contains(arg, <<".", ".">>) \/ Contains(arg, <<"/">>)

\* Lines 247 and 265-266.
DownloadPath(route, arg) ==
    IF route = "pdf" THEN Join(StaticDir, arg) ELSE Join(StaticDir, PdfName(arg))

PdfArgs == { PdfName(id) : id \in ReceiptIds } \cup
           { <<"q","r","/">> \o QrName(<<"1">>),
             <<".",".","/","a","p","p",".","p","y">> }
ReceiptArgs == ReceiptIds \cup { <<".",".","/","1">>, <<"1","/","1">> }
DlArgs(route) == IF route = "pdf" THEN PdfArgs ELSE ReceiptArgs

\* Validation and the os.path.exists lookup (lines 244-251, 262-271).
DownloadLookup(d, route, arg) ==
    /\ dl[d].pc = "idle"
    /\ arg \in DlArgs(route)
    /\ LET path == DownloadPath(route, arg) IN
       dl' = [dl EXCEPT ![d] =
                IF InvalidIdentifier(arg)
                THEN [IdleDl EXCEPT !.pc = "done", !.route = route, !.arg = arg,
                                    !.status = 400]
                ELSE IF ~Exists(path)
                THEN [IdleDl EXCEPT !.pc = "done", !.route = route, !.arg = arg,
                                    !.status = 404]
                ELSE [IdleDl EXCEPT !.pc = "found", !.route = route, !.arg = arg]]
    /\ UNCHANGED <<now, disk, gen, timer, up, uploads, calc>>

\* send_file (lines 253, 269) opens the path; when the file is gone it raises,
\* which is caught at 254-256 and 272-274 and answered with 500.
DownloadSend(d) ==
    /\ dl[d].pc = "found"
    /\ LET path == DownloadPath(dl[d].route, dl[d].arg) IN
       dl' = [dl EXCEPT ![d].pc = "done",
                        ![d].status = IF Exists(path) THEN 200 ELSE 500,
                        ![d].sent = Exists(path)]
    /\ UNCHANGED <<now, disk, gen, timer, up, uploads, calc>>

(***************************************************************************)
(* The clock.  It runs while a request can still start or a deletion       *)
(* thread is still asleep.                                                 *)
(***************************************************************************)
Timers == GenSlots \X Kinds

Tick ==
    /\ \/ now <= MaxTime
       \/ \E t \in Timers : timer[t].st = "sleep" /\ now < timer[t].wake
    /\ now' = now + TickSeconds
    /\ UNCHANGED <<disk, gen, timer, dl, up, uploads, calc>>

(***************************************************************************)
(* upload_logo (lines 115-133) and its helpers.                            *)
(***************************************************************************)
UpperLetters == <<"A","B","C","D","E","F","G","H","I","J","K","L","M",
                  "N","O","P","Q","R","S","T","U","V","W","X","Y","Z">>
LowerLetters == <<"a","b","c","d","e","f","g","h","i","j","k","l","m",
                  "n","o","p","q","r","s","t","u","v","w","x","y","z">>
Digit == <<"0","1","2","3","4","5","6","7","8","9">>

\* str.lower()
LowerChar(c) ==
    IF \E i \in 1 .. 26 : UpperLetters[i] = c
    THEN LowerLetters[CHOOSE i \in 1 .. 26 : UpperLetters[i] = c]
    ELSE c
Lower(s) == [i \in 1 .. Len(s) |-> LowerChar(s[i])]

\* Index of the last "." of s, 0 when there is none.
LastDot(s) ==
    IF \E i \in 1 .. Len(s) : s[i] = "."
    THEN CHOOSE i \in 1 .. Len(s) : s[i] = "." /\ \A j \in (i + 1) .. Len(s) : s[j] # "."
    ELSE 0

ALLOWED_EXTENSIONS ==
    { <<"p","n","g">>, <<"j","p","g">>, <<"j","p","e","g">>,
      <<"g","i","f">>, <<"s","v","g">> }

\* The extension taken after the first dot: filename.split('.')[1].
allowed_file_FirstDot(filename) ==
    /\ Contains(filename, <<".">>)
    /\ LET first == CHOOSE i \in 1 .. Len(filename) :
                       filename[i] = "." /\ \A j \in 1 .. (i - 1) : filename[j] # "."
           rest == SubSeq(filename, first + 1, Len(filename))
           stop == IF Contains(rest, <<".">>)
                   THEN (CHOOSE i \in 1 .. Len(rest) :
                           rest[i] = "." /\ \A j \in 1 .. (i - 1) : rest[j] # ".") - 1
                   ELSE Len(rest)
       IN Lower(SubSeq(rest, 1, stop)) \in ALLOWED_EXTENSIONS

\* Line 80: '.' in filename and filename.rsplit('.', 1)[1].lower() in ALLOWED_EXTENSIONS
allowed_file(filename) ==
    /\ Contains(filename, <<".">>)
    /\ Lower(SubSeq(filename, LastDot(filename) + 1, Len(filename))) \in ALLOWED_EXTENSIONS

\* werkzeug's secure_filename (called at line 125): path separators and
\* blanks become "_", characters outside [A-Za-z0-9_.-] are dropped, and
\* leading and trailing "." and "_" are stripped.
SafeChar(c) ==
    \/ \E i \in 1 .. 26 : UpperLetters[i] = c \/ LowerLetters[i] = c
    \/ \E i \in 1 .. 10 : Digit[i] = c
    \/ c \in {"_", ".", "-"}

RECURSIVE StripLeft(_)
StripLeft(s) ==
    IF s # <<>> /\ s[1] \in {".", "_"} THEN StripLeft(Tail(s)) ELSE s

RECURSIVE StripRight(_)
StripRight(s) ==
    IF s # <<>> /\ s[Len(s)] \in {".", "_"}
    THEN StripRight(SubSeq(s, 1, Len(s) - 1)) ELSE s

secure_filename(name) ==
    LET sep == [i \in 1 .. Len(name) |-> IF name[i] \in {"/", " "} THEN "_" ELSE name[i]]
    IN StripRight(StripLeft(SelectSeq(sep, SafeChar)))

\* os.path.splitext (line 127): the extension starts at the last dot, unless
\* that dot only leads the name.
splitext(filename) ==
    LET d == LastDot(filename) IN
    IF d > 0 /\ \E j \in 1 .. (d - 1) : filename[j] # "."
    THEN <<SubSeq(filename, 1, d - 1), SubSeq(filename, d, Len(filename))>>
    ELSE <<filename, <<>>>>

\* str(int) of a non-negative integer.
RECURSIVE Decimal(_)
Decimal(n) ==
    IF n < 10 THEN <<Digit[n + 1]>> ELSE Decimal(n \div 10) \o <<Digit[(n % 10) + 1]>>

\* Line 128: f"{name}_{int(datetime.now().timestamp())}{ext}"
StoredName(filename, seconds) ==
    LET parts == splitext(secure_filename(filename))
    IN parts[1] \o <<"_">> \o Decimal(seconds) \o parts[2]

IdleUp == [pc |-> "idle", has |-> FALSE, name |-> <<>>, stored |-> <<>>,
           status |-> 0, error |-> ""]

\* file.save(filepath): the file at that name is created or replaced.
SaveUpload(stored, u) ==
    { f \in uploads : f.name # stored } \cup { [name |-> stored, by |-> u] }

FileNames ==
    { <<>>,
      <<"l",".","p","n","g">>,
      <<"l",".","P","n","G">>,
      <<"l",".","e","x","e">>,
      <<"l",".","p","n","g",".","e","x","e">>,
      <<"l",".","e","x","e",".","j","p","e","g">>,
      <<"p","n","g">>,
      <<"a","/","l",".","g","i","f">> }

\* The whole handler.  `has` tells whether the form carries a 'logo' field,
\* `name` is file.filename.
upload_logo(u, has, name) ==
    /\ up[u].pc = "idle"
    /\ LET req == [IdleUp EXCEPT !.pc = "done", !.has = has, !.name = name]
           stored == StoredName(name, now)
       IN IF ~has
          THEN /\ up' = [up EXCEPT ![u] = [req EXCEPT !.status = 400,
                                                      !.error = "No file selected"]]
               /\ uploads' = uploads
          ELSE IF name = <<>>
          THEN /\ up' = [up EXCEPT ![u] = [req EXCEPT !.status = 400,
                                                      !.error = "No file selected"]]
               /\ uploads' = uploads
          ELSE IF allowed_file(name)
          THEN /\ up' = [up EXCEPT ![u] = [req EXCEPT !.status = 200,
                                                      !.stored = stored]]
               /\ uploads' = SaveUpload(stored, u)
          ELSE /\ up' = [up EXCEPT ![u] = [req EXCEPT !.status = 400,
                                                      !.error = "Invalid file type"]]
               /\ uploads' = uploads
    /\ UNCHANGED <<now, disk, gen, timer, dl, calc>>

\* Time passes between uploads.
UploadTick ==
    /\ now < MaxClock
    /\ now' = now + TickSeconds
    /\ UNCHANGED <<disk, gen, timer, dl, up, uploads, calc>>

(***************************************************************************)
(* The receipt calculator, lines 139-158 of generate_receipt.              *)
(* Amounts are integers in units of 1/UnitsPerCent of a cent; a formatted  *)
(* amount ("{:.2f}") is an integer number of cents.                        *)
(***************************************************************************)
UnitsPerCent == 1000

Max0(x) == IF x > 0 THEN x ELSE 0

\* "{:.2f}".format(x): the nearest cent, a tie going to the even cent.
Format2(x) ==
    LET q == x \div UnitsPerCent
        r == x % UnitsPerCent
    IN IF 2 * r > UnitsPerCent THEN q + 1
       ELSE IF 2 * r < UnitsPerCent THEN q
       ELSE IF q % 2 = 0 THEN q ELSE q + 1

\* The isinstance test left out.
NormalizeItems_Unchecked(items) == items.val

\* Lines 142-146: items that are not a list become [].
NormalizeItems(items) ==
    IF items.kind = "list" THEN items.val ELSE <<>>

\* Line 150: sum(float(quantity) * float(price) for item in items)
RECURSIVE SumItems(_)
SumItems(items) ==
    IF items = <<>> THEN 0
    ELSE items[1].quantity * items[1].price + SumItems(Tail(items))

\* The total formatted without the clamp.
ClampTotal_Missing(grand_total) == grand_total

\* Line 158: max(0, grand_total)
ClampTotal(grand_total) == Max0(grand_total)

Supplied(req, field) == req[field].present

\* Lines 148-158: the totals as they stand in `data` afterwards, in cents.
ComputeTotals(req) ==
    IF ~Supplied(req, "subtotal") \/ ~Supplied(req, "tax_amount")
          \/ ~Supplied(req, "grand_total")
    THEN LET subtotal == SumItems(NormalizeItems(req.items))
             tax_amount == (subtotal * req.tax_rate) \div 100
             grand_total == subtotal + tax_amount - req.discount
         IN [subtotal |-> Format2(subtotal),
             tax_amount |-> Format2(tax_amount),
             grand_total |-> Format2(ClampTotal(grand_total))]
    ELSE [subtotal |-> req.subtotal.val,
          tax_amount |-> req.tax_amount.val,
          grand_total |-> req.grand_total.val]

\* Inputs of the calculator.
Quantities == {1, 2}
Prices == {400, 100400, 1000000}            \* 0.004, 1.004, 10.00
TaxRates == {0, 10, 50}
Discounts == {0, 500000, 5000000}           \* 0, 5.00, 50.00
LineItems == [quantity : Quantities, price : Prices]
ItemLists == UNION { [1 .. n -> LineItems] : n \in 0 .. MaxItems }
ItemsFields ==
    { [kind |-> "list", val |-> l] : l \in ItemLists } \cup
    { [kind |-> "object", val |-> <<[quantity |-> 2, price |-> 1000000]>>] }
Absent == [present |-> FALSE, val |-> 0]
SuppliedTotals == { Absent, [present |-> TRUE, val |-> -500],
                    [present |-> TRUE, val |-> 1700] }
CalcRequests ==
    [items : ItemsFields, tax_rate : TaxRates, discount : Discounts,
     subtotal : SuppliedTotals, tax_amount : SuppliedTotals,
     grand_total : SuppliedTotals]

NoTotals == [subtotal |-> 0, tax_amount |-> 0, grand_total |-> 0]

\* The request is handled up to line 158.
CalculateTotals ==
    /\ calc.pc = "request"
    /\ calc' = [calc EXCEPT !.pc = "computed", !.data = ComputeTotals(calc.req)]
    /\ UNCHANGED <<now, disk, gen, timer, dl, up, uploads>>

(***************************************************************************)
(* Specifications.                                                         *)
(***************************************************************************)
\* A variable that a specification does not use holds this value.
Unused == <<>>

\* The artifact lifecycle: generation, deletion threads, downloads.
Init ==
    /\ now = 0
    /\ disk = [f \in Files |-> [exists |-> FALSE, by |-> 0]]
    /\ gen = [r \in GenSlots |-> IdleGen]
    /\ timer = [t \in Timers |-> NoTimer]
    /\ dl = [d \in DlSlots |-> IdleDl]
    /\ up = Unused
    /\ uploads = {}
    /\ calc = Unused

Next ==
    \/ \E r \in GenSlots, id \in ReceiptIds : GenFailEarly(r, id)
    \/ \E r \in GenSlots, id \in ReceiptIds : GenSaveQR(r, id)
    \/ \E r \in GenSlots : GenWritePDF(r)
    \/ \E r \in GenSlots, k \in {"renderer_unavailable", "generic"}, w \in BOOLEAN :
          GenRenderError(r, k, w)
    \/ \E r \in GenSlots : GenScheduleAndRespond(r)
    \/ \E t \in Timers : TimerCheck(t)
    \/ \E t \in Timers : TimerRemove(t)
    \/ \E d \in DlSlots, route \in {"pdf", "receipt"}, arg \in PdfArgs \cup ReceiptArgs :
          DownloadLookup(d, route, arg)
    \/ \E d \in DlSlots : DownloadSend(d)
    \/ Tick

Spec == Init /\ [][Next]_vars

\* Deletion threads are daemon threads of a running process: each one that
\* can take its next step eventually does, and time passes.
FairSpec ==
    /\ Spec
    /\ WF_vars(Tick)
    /\ \A t \in Timers : WF_vars(TimerCheck(t)) /\ WF_vars(TimerRemove(t))

\* Uploads.
UploadNext ==
    \/ \E u \in UpSlots, has \in BOOLEAN, name \in FileNames : upload_logo(u, has, name)
    \/ UploadTick

UploadInit ==
    /\ now = 0
    /\ up = [u \in UpSlots |-> IdleUp]
    /\ uploads = {}
    /\ disk = Unused
    /\ gen = Unused
    /\ timer = Unused
    /\ dl = Unused
    /\ calc = Unused

UploadSpec == UploadInit /\ [][UploadNext]_vars

\* The calculator on every request of CalcRequests.
CalcInit ==
    /\ calc \in { [pc |-> "request", req |-> q, data |-> NoTotals] : q \in CalcRequests }
    /\ now = 0
    /\ uploads = {}
    /\ up = Unused
    /\ disk = Unused
    /\ gen = Unused
    /\ timer = Unused
    /\ dl = Unused

CalcNext == CalculateTotals

CalcSpec == CalcInit /\ [][CalcNext]_vars

(***************************************************************************)
(* Properties.                                                             *)
(***************************************************************************)
BothAbsent(id) == ~Exists(PdfPath(id)) /\ ~Exists(QrPath(id))

\* C1: when generate_receipt returns success, static/receipt_<id>.pdf and
\* static/qr/qr_<id>.png both exist at that moment, and with the deletion
\* threads scheduled fairly both are eventually absent, no download needed.
C1_PresentThenAbsent ==
    /\ [][\A r \in GenSlots :
            (gen[r].pc = "pdf" /\ gen'[r].pc = "done" /\ gen'[r].status = 200)
                => (disk'[<<"pdf", gen[r].id>>].exists /\ disk'[<<"qr", gen[r].id>>].exists)]_vars
    /\ \A r \in GenSlots : (gen[r].status = 200) ~> BothAbsent(gen[r].id)

\* C2: a file written by a generate_receipt request is never removed by a
\* deletion thread before that request has scheduled its deletion and 60
\* seconds have passed since: late, but never early.
C2_NeverDeletedEarly ==
    [][\A f \in Files :
          (disk[f].exists /\ ~disk'[f].exists) =>
              \E k \in Kinds :
                  /\ timer[<<disk[f].by, k>>].st # "none"
                  /\ timer[<<disk[f].by, k>>].file = f
                  /\ now >= timer[<<disk[f].by, k>>].wake]_vars

\* C8: a download whose identifier passes validation ends with 404 or with
\* the file streamed (200), whatever the deletion threads do meanwhile.
C8_DownloadIs404OrFile ==
    \A d \in DlSlots :
        (dl[d].pc = "done" /\ dl[d].arg # <<>>
            /\ ~Contains(dl[d].arg, <<".", ".">>) /\ ~Contains(dl[d].arg, <<"/">>))
        => dl[d].status \in {200, 404}

\* C9: once a generate_receipt request has returned, on success or on
\* either error, every file it wrote has a deletion scheduled by it.
C9_EveryWrittenFileIsScheduled ==
    \A r \in GenSlots :
        gen[r].pc = "done" =>
            \A k \in gen[r].wrote :
                /\ timer[<<r, k>>].st # "none"
                /\ PathOf(timer[<<r, k>>].file) = ArtifactPath(k, gen[r].id)

HasSeparatorOrParent(arg) ==
    \/ \E i \in 1 .. Len(arg) : arg[i] = "/"
    \/ \E i \in 1 .. (Len(arg) - 1) : arg[i] = "." /\ arg[i + 1] = "."

\* C6: a download whose identifier contains '..' or '/' is answered 400
\* and never reaches the disk: no path is looked up and no file is sent.
C6_TraversalRejected ==
    \A d \in DlSlots :
        (dl[d].pc # "idle" /\ HasSeparatorOrParent(dl[d].arg)) =>
            /\ dl[d].pc = "done"
            /\ dl[d].status = 400
            /\ ~dl[d].sent

\* The QR image of receipt 1 is on disk and download_pdf("qr/qr_1.png"),
\* which names it, was answered 400.
C6_Witness ==
    \E d \in DlSlots :
        /\ dl[d].pc = "done"
        /\ dl[d].route = "pdf"
        /\ dl[d].arg = <<"q","r","/">> \o QrName(<<"1">>)
        /\ dl[d].status = 400
        /\ Exists(DownloadPath("pdf", dl[d].arg))

\* C10: a deletion thread that finds its file absent, at the existence test
\* or at the remove, changes nothing on disk, touches no request and leaves
\* every other deletion thread as it was.
C10_AbsentFileIsNoOp ==
    [][\A t \in Timers :
          (timer'[t] # timer[t] /\ timer[t].st \in {"sleep", "found"}
              /\ ~Exists(PathOf(timer[t].file)))
          => /\ timer'[t].st \in {"noop", "error"}
             /\ disk' = disk
             /\ gen' = gen
             /\ dl' = dl
             /\ \A u \in Timers \ {t} : timer'[u] = timer[u]]_vars

\* One thread's remove failed (the file went between its test and its
\* remove) while another deletion is still outstanding.
C10_Witness ==
    \E t \in Timers, u \in Timers :
        /\ t # u
        /\ timer[t].st = "error"
        /\ timer[u].st = "sleep"

\* C5: two successful uploads of the same original filename are stored
\* under different names.
C5_SameNameStoredApart ==
    \A u \in UpSlots, v \in UpSlots :
        (u # v /\ up[u].pc = "done" /\ up[v].pc = "done"
            /\ up[u].status = 200 /\ up[v].status = 200
            /\ up[u].name = up[v].name)
        => up[u].stored # up[v].stored

EndsWithAllowedExtension(name) ==
    \E e \in ALLOWED_EXTENSIONS :
        /\ Len(name) > Len(e)
        /\ name[Len(name) - Len(e)] = "."
        /\ Lower(SubSeq(name, Len(name) - Len(e) + 1, Len(name))) = e

\* C7: an upload with no 'logo' field, an empty filename or an extension
\* outside png, jpg, jpeg, gif, svg (any letter case) is answered 400 and
\* the upload directory is left as it was.
C7_RejectedUploadWritesNothing ==
    [][\A u \in UpSlots :
          (up[u].pc = "idle" /\ up'[u].pc = "done"
              /\ (~up'[u].has \/ up'[u].name = <<>>
                    \/ ~EndsWithAllowedExtension(up'[u].name)))
          => (up'[u].status = 400 /\ uploads' = uploads)]_vars

\* l.png.exe was rejected while an earlier upload sits in the directory.
C7_Witness ==
    \E u \in UpSlots :
        /\ up[u].pc = "done"
        /\ up[u].has
        /\ up[u].name = <<"l",".","p","n","g",".","e","x","e">>
        /\ up[u].status = 400
        /\ Cardinality(uploads) = 1

AllSupplied(q) == q.subtotal.present /\ q.tax_amount.present /\ q.grand_total.present
NoneSupplied(q) == ~q.subtotal.present /\ ~q.tax_amount.present /\ ~q.grand_total.present

\* C3 as claimed: whatever the request carries, grand_total is not negative
\* and equals max(0, subtotal + tax_amount - discount) of the same data.
C3_GrandTotalWhateverSupplied ==
    calc.pc = "computed" =>
        /\ calc.data.grand_total >= 0
        /\ UnitsPerCent * calc.data.grand_total =
              Max0(UnitsPerCent * (calc.data.subtotal + calc.data.tax_amount)
                     - calc.req.discount)

\* C3 amended: unless the request supplies all three totals, grand_total is
\* not negative and lies within 1.5 cents of
\* max(0, subtotal + tax_amount - discount) of the same (formatted) data.
C3_GrandTotalWhenComputed ==
    (calc.pc = "computed" /\ ~AllSupplied(calc.req)) =>
        LET shown == UnitsPerCent * calc.data.grand_total
            expr == Max0(UnitsPerCent * (calc.data.subtotal + calc.data.tax_amount)
                           - calc.req.discount)
        IN /\ calc.data.grand_total >= 0
           /\ 2 * (shown - expr) <= 3 * UnitsPerCent
           /\ 2 * (expr - shown) <= 3 * UnitsPerCent

\* A negative grand_total came without a subtotal, the discount exceeds the
\* items, and the recomputed total is 0.
C3_Witness ==
    /\ calc.pc = "computed"
    /\ calc.req.grand_total.present
    /\ calc.req.grand_total.val < 0
    /\ ~calc.req.subtotal.present
    /\ calc.req.items.kind = "list"
    /\ calc.req.items.val # <<>>
    /\ calc.req.discount = 5000000
    /\ calc.data.subtotal > 0
    /\ calc.data.grand_total = 0

RECURSIVE SumFirst(_, _)
SumFirst(l, n) ==
    IF n = 0 THEN 0 ELSE SumFirst(l, n - 1) + l[n].quantity * l[n].price

ExampleRequest ==
    [items |-> [kind |-> "list", val |-> <<[quantity |-> 2, price |-> 1000000]>>],
     tax_rate |-> 10, discount |-> 500000,
     subtotal |-> Absent, tax_amount |-> Absent, grand_total |-> Absent]

\* C4: with no totals supplied, subtotal is the sum of quantity * price,
\* tax_amount is subtotal * tax_rate / 100 and grand_total is
\* max(0, subtotal + tax_amount - discount), each to two decimals; items
\* that are not a list count as no items; 2 x 10.00 at 10% less 5 gives
\* 20.00, 2.00 and 17.00.
C4_ComputedTotals ==
    (calc.pc = "computed" /\ NoneSupplied(calc.req)) =>
        LET q == calc.req
            sub == IF q.items.kind = "list"
                   THEN SumFirst(q.items.val, Len(q.items.val)) ELSE 0
            tax == (sub * q.tax_rate) \div 100
        IN /\ 100 * tax = sub * q.tax_rate
           /\ calc.data.subtotal = Format2(sub)
           /\ calc.data.tax_amount = Format2(tax)
           /\ calc.data.grand_total = Format2(Max0(sub + tax - q.discount))
           /\ q.items.kind # "list" =>
                 calc.data = [subtotal |-> 0, tax_amount |-> 0, grand_total |-> 0]
           /\ q = ExampleRequest =>
                 calc.data = [subtotal |-> 2000, tax_amount |-> 200,
                              grand_total |-> 1700]

\* The example request has been computed.
C4_Witness ==
    /\ calc.pc = "computed"
    /\ calc.req = ExampleRequest
    /\ calc.data.grand_total = 1700

====
